---- MODULE Spec2Model ----
\* Model of the cloud transcription client (src-tauri/src/cloud_transcription/openai.rs):
\* the shared configuration behind a tokio Mutex, the transcribe / validate_api_key
\* calls of concurrent tasks, the WAV encoder, and the save-mode driven persistence
\* of a finished recording.
EXTENDS Integers, Sequences, FiniteSets, TLC

VARIABLES
    client,      \* Option<Client<OpenAIConfig>>: the provider handle built by new()
    config,      \* Option<OpenAIConfiguration>: contents of the Arc<Mutex<..>>
    lock,        \* holder of the tokio Mutex, or Free
    newResult,   \* per credential: the Result of the last new(credential)
    pc,          \* per task: position in the operation it runs
    op,          \* per task: the operation it runs
    arg,         \* per task: the arguments of the operation
    snap,        \* per task: the local `config` clone of the call
    sent,        \* per task: the outbound request of the call, once issued
    calls,       \* per task: network calls issued by the current invocation
    encoded,     \* per task: whether the current invocation encoded its audio
    result,      \* per task: the Result the invocation returns
    lastUpdate,  \* history: configuration installed by the last completed writer
    updSeq,      \* history: number of completed update_config calls
    startSeq,    \* history, per task: updSeq when the invocation started
    snapAt,      \* history, per task: lastUpdate when the snapshot took the lock
    encSamples,  \* encoder harness: the input sample sequence
    encOut,      \* encoder harness: Option<Vec<u8>> returned by the encoder
    saveMode,    \* Option: the save mode the user stored in the settings, if any
    retention,   \* retention cap (0 = unlimited)
    phase,       \* lifecycle state of the recording being persisted
    cur,         \* the recording being persisted
    history      \* finalized recordings, oldest first

vars == <<client, config, lock, newResult, pc, op, arg, snap, sent, calls,
          encoded, result, lastUpdate, updSeq, startSeq, snapAt,
          encSamples, encOut, saveMode, retention, phase, cur, history>>

clientVars == <<client, config, lock, newResult, pc, op, arg, snap, sent, calls,
                encoded, result, lastUpdate, updSeq, startSeq, snapAt>>
encVars == <<encSamples, encOut>>
persistVars == <<saveMode, retention, phase, cur, history>>

\* ---------------------------------------------------------------- bounds
MaxUpdates == 2
MaxLen == 3
MaxRecordings == 3

\* ---------------------------------------------------------------- Option / Result
None == <<>>
Some(x) == <<x>>
Ok(x) == <<"Ok", x>>
Err(msg) == <<"Err", msg>>

\* ---------------------------------------------------------------- configuration
OpenAIConfiguration(k, m, l, t, p) ==
    [api_key |-> k, model |-> m, language |-> l, temperature |-> t, prompt |-> p]

\* temperature is a f32; it is modelled in tenths (0 = 0.0, 5 = 0.5, 10 = 1.0)
DefaultConfiguration == OpenAIConfiguration("", "whisper-1", None, 0, None)

\* the contents of a configuration slot before any field has been written
Blank == OpenAIConfiguration("", "", None, 0, None)

Tasks == {"t1", "t2"}
Free == "free"

ApiKeys == {"", "k1", "k4"}
ConfigInputs ==
    { OpenAIConfiguration("k2", "m2", Some("en"), 5, Some("p1")),
      OpenAIConfiguration("k1", "whisper-1", None, 0, Some("p2")),
      OpenAIConfiguration("k3", "m3", Some("fr"), 10, None),
      OpenAIConfiguration("", "m2", Some("en"), 5, None) }
LanguageInputs == {None, Some("de")}
\* ---------------------------------------------------------------- WAV encoder
\* A f32 sample is modelled as a fixed-point number of thousandths, or NaN.
F32(m) == [nan |-> FALSE, milli |-> m]
NaN == [nan |-> TRUE, milli |-> 0]
SampleValues == {F32(0 - 2000), F32(0 - 1000), F32(0 - 500), F32(0), F32(250), F32(1000), NaN}

I16_MAX == 32767

LE16(n) == <<n % 256, (n \div 256) % 256>>
LE32(n) == <<n % 256, (n \div 256) % 256, (n \div 65536) % 256, (n \div 16777216) % 256>>

\* the ASCII chunk tags
TagRIFF == <<82, 73, 70, 70>>
TagWAVE == <<87, 65, 86, 69>>
TagFmt == <<102, 109, 116, 32>>
TagData == <<100, 97, 116, 97>>

WavSpec == [channels |-> 1, sample_rate |-> 16000, bits_per_sample |-> 16,
            sample_format |-> "Int"]

\* f32::clamp(-1.0, 1.0): NaN stays NaN
Clamp(s) ==
    IF s.nan THEN s
    ELSE IF s.milli < 0 - 1000 THEN F32(0 - 1000)
    ELSE IF s.milli > 1000 THEN F32(1000)
    ELSE s

\* (clamped_sample * i16::MAX as f32) as i16: the cast truncates toward zero,
\* saturates at the i16 range and maps NaN to 0
ToI16(s) ==
    IF s.nan THEN 0
    ELSE LET p == s.milli * I16_MAX
             q == IF p >= 0 THEN p \div 1000 ELSE 0 - ((0 - p) \div 1000)
         IN  IF q > 32767 THEN 32767 ELSE IF q < 0 - 32768 THEN 0 - 32768 ELSE q

\* WavWriter::new (hound) for a 16-bit integer PCM spec of at most two channels:
\* the 44-byte header with a 16-byte fmt chunk, its two size fields still zero
WavWriterNew(spec) ==
    LET bytesPerSample == spec.bits_per_sample \div 8
        blockAlign == spec.channels * bytesPerSample
    IN  TagRIFF \o LE32(0) \o TagWAVE
        \o TagFmt \o LE32(16) \o LE16(1) \o LE16(spec.channels)
        \o LE32(spec.sample_rate) \o LE32(spec.sample_rate * blockAlign)
        \o LE16(blockAlign) \o LE16(spec.bits_per_sample)
        \o TagData \o LE32(0)

\* writer.write_sample(int_sample): a 16-bit little-endian two's complement value
WriteSample(buffer, v) == buffer \o LE16((v + 65536) % 65536)

\* the loop over the samples, in input order
RECURSIVE WriteSamples(_, _)
WriteSamples(buffer, samples) ==
    IF samples = <<>> THEN buffer
    ELSE WriteSamples(WriteSample(buffer, ToI16(Clamp(Head(samples)))), Tail(samples))

\* mutant of Finalize: the size fields keep the zeros written with the header
FinalizeWithoutPatch(buffer) == buffer

\* writer.finalize(): patches the outer size (offset 4) and the data size (offset 40)
Finalize(buffer) ==
    LET riff == LE32(Len(buffer) - 8)
        data == LE32(Len(buffer) - 44)
    IN  [i \in 1..Len(buffer) |->
            IF i \in 5..8 THEN riff[i - 4]
            ELSE IF i \in 41..44 THEN data[i - 40]
            ELSE buffer[i]]

audio_samples_to_wav_bytes(samples) ==
    Ok(Finalize(WriteSamples(WavWriterNew(WavSpec), samples)))

\* all sequences over S of length at most n
SeqsUpTo(S, n) == UNION {[1..k -> S] : k \in 0..n}
\* ---------------------------------------------------------------- client
AudioInputs == {<<>>, <<F32(250)>>}
ProviderText == "hello"

InUpdate(t) == op[t] = "update"
UpdatesInProgress == Cardinality({t \in Tasks : InUpdate(t)})

\* the per-task locals of a task that runs no operation
Reset(t) ==
    /\ pc' = [pc EXCEPT ![t] = "idle"]
    /\ op' = [op EXCEPT ![t] = "none"]
    /\ arg' = [arg EXCEPT ![t] = None]
    /\ snap' = [snap EXCEPT ![t] = None]
    /\ sent' = [sent EXCEPT ![t] = None]
    /\ calls' = [calls EXCEPT ![t] = 0]
    /\ encoded' = [encoded EXCEPT ![t] = FALSE]
    /\ result' = [result EXCEPT ![t] = None]
    /\ startSeq' = [startSeq EXCEPT ![t] = 0]
    /\ snapAt' = [snapAt EXCEPT ![t] = None]

\* mutant of New: the credential is not checked
NewWithoutKeyCheck(api_key) ==
    /\ client = None
    /\ newResult' = [newResult EXCEPT ![api_key] = Ok("client")]
    /\ client' = Some([api_key |-> api_key])
    /\ config' = Some([DefaultConfiguration EXCEPT !.api_key = api_key])
    /\ lastUpdate' = config'
    /\ UNCHANGED <<lock, pc, op, arg, snap, sent, calls, encoded, result, updSeq,
                   startSeq, snapAt>>

\* OpenAIClient::new(api_key)
New(api_key) ==
    /\ client = None
    /\ IF api_key = ""
       THEN /\ newResult' = [newResult EXCEPT ![api_key] = Err("OpenAI API key is required")]
            /\ UNCHANGED <<client, config, lastUpdate>>
       ELSE /\ newResult' = [newResult EXCEPT ![api_key] = Ok("client")]
            /\ client' = Some([api_key |-> api_key])
            /\ config' = Some([DefaultConfiguration EXCEPT !.api_key = api_key])
            /\ lastUpdate' = config'
    /\ UNCHANGED <<lock, pc, op, arg, snap, sent, calls, encoded, result, updSeq,
                   startSeq, snapAt>>

\* mutant of Acquire: the lock is granted while another task holds it
AcquireWithoutExclusion(t) == lock' = t

\* tokio Mutex::lock().await: granted when the mutex is free
Acquire(t) ==
    /\ lock = Free
    /\ lock' = t

\* dropping the MutexGuard
Release(t) == lock' = Free

\* ---- update_config(config)
UpdateStart(t, c) ==
    /\ client # None
    /\ pc[t] = "idle"
    /\ updSeq + UpdatesInProgress < MaxUpdates
    /\ pc' = [pc EXCEPT ![t] = "u_lock"]
    /\ op' = [op EXCEPT ![t] = "update"]
    /\ arg' = [arg EXCEPT ![t] = Some(c)]
    /\ UNCHANGED <<client, config, lock, newResult, snap, sent, calls, encoded,
                   result, lastUpdate, updSeq, startSeq, snapAt>>

\* let mut current_config = self.config.lock().await;
UpdateLock(t) ==
    /\ pc[t] = "u_lock"
    /\ Acquire(t)
    /\ pc' = [pc EXCEPT ![t] = "u_write1"]
    /\ UNCHANGED <<client, config, newResult, op, arg, snap, sent, calls,
                   encoded, result, lastUpdate, updSeq, startSeq, snapAt>>

\* *current_config = config; the struct is stored in two parts: the store of a
\* five-field struct is not one atomic memory operation
UpdateWrite1(t) ==
    /\ pc[t] = "u_write1"
    /\ config' = Some([config[1] EXCEPT !.api_key = arg[t][1].api_key,
                                        !.model = arg[t][1].model])
    /\ pc' = [pc EXCEPT ![t] = "u_write2"]
    /\ UNCHANGED <<client, lock, newResult, op, arg, snap, sent, calls, encoded,
                   result, lastUpdate, updSeq, startSeq, snapAt>>

\* the rest of the store, then the guard is dropped at the end of the function
UpdateWrite2(t) ==
    /\ pc[t] = "u_write2"
    /\ config' = Some([config[1] EXCEPT !.language = arg[t][1].language,
                                        !.temperature = arg[t][1].temperature,
                                        !.prompt = arg[t][1].prompt])
    /\ Release(t)
    /\ lastUpdate' = arg[t]
    /\ updSeq' = updSeq + 1
    /\ Reset(t)
    /\ UNCHANGED <<client, newResult>>

\* ---- let config = self.config.lock().await.clone();  (transcribe and validate_api_key)
SnapLock(t) ==
    /\ pc[t] = "lock"
    /\ Acquire(t)
    /\ snapAt' = [snapAt EXCEPT ![t] = lastUpdate]
    /\ pc' = [pc EXCEPT ![t] = "clone1"]
    /\ UNCHANGED <<client, config, newResult, op, arg, snap, sent, calls,
                   encoded, result, lastUpdate, updSeq, startSeq>>

\* the clone copies the struct in two parts, as the store does
SnapClone1(t) ==
    /\ pc[t] = "clone1"
    /\ snap' = [snap EXCEPT ![t] = Some([Blank EXCEPT !.api_key = config[1].api_key,
                                                       !.model = config[1].model])]
    /\ pc' = [pc EXCEPT ![t] = "clone2"]
    /\ UNCHANGED <<client, config, lock, newResult, op, arg, sent, calls,
                   encoded, result, lastUpdate, updSeq, startSeq, snapAt>>

\* mutant of SnapClone2: the guard is bound to a local and lives on after the clone
SnapClone2KeepingGuard(t) ==
    /\ pc[t] = "clone2"
    /\ snap' = [snap EXCEPT ![t] = Some([snap[t][1] EXCEPT
                                            !.language = config[1].language,
                                            !.temperature = config[1].temperature,
                                            !.prompt = config[1].prompt])]
    /\ pc' = [pc EXCEPT ![t] = "check"]
    /\ UNCHANGED <<client, config, lock, newResult, op, arg, sent, calls, encoded,
                   result, lastUpdate, updSeq, startSeq, snapAt>>

\* the rest of the clone; the temporary guard is dropped at the end of the statement
SnapClone2(t) ==
    /\ pc[t] = "clone2"
    /\ snap' = [snap EXCEPT ![t] = Some([snap[t][1] EXCEPT
                                            !.language = config[1].language,
                                            !.temperature = config[1].temperature,
                                            !.prompt = config[1].prompt])]
    /\ Release(t)
    /\ pc' = [pc EXCEPT ![t] = "check"]
    /\ UNCHANGED <<client, config, newResult, op, arg, sent, calls, encoded,
                   result, lastUpdate, updSeq, startSeq, snapAt>>

\* ---- transcribe(audio_samples, language, translate_to_english)
TranscribeStart(t, audio_samples, language, translate_to_english) ==
    /\ client # None
    /\ pc[t] = "idle"
    /\ pc' = [pc EXCEPT ![t] = "lock"]
    /\ op' = [op EXCEPT ![t] = "transcribe"]
    /\ arg' = [arg EXCEPT ![t] = Some([audio_samples |-> audio_samples,
                                       language |-> language])]
    /\ startSeq' = [startSeq EXCEPT ![t] = updSeq]
    /\ UNCHANGED <<client, config, lock, newResult, snap, sent, calls, encoded,
                   result, lastUpdate, updSeq, snapAt>>

\* mutant of RequestLanguage: the configured language wins over the per-call one
RequestLanguageConfigFirst(language, cfg) ==
    IF cfg.language # None THEN cfg.language
    ELSE IF language # None THEN language
    ELSE None

\* the language of the request: the per-call one, else the configured one
RequestLanguage(language, cfg) ==
    IF language # None THEN language
    ELSE IF cfg.language # None THEN cfg.language
    ELSE None

\* mutant of BuildRequest: the request is filled from the shared configuration as it
\* is when the request is built, not from the call's snapshot
BuildRequestFromShared(cfg, wav_bytes, language) ==
    [model |-> config[1].model,
     file |-> [data |-> wav_bytes, file_name |-> "audio.wav"],
     response_format |-> "json",
     language |-> RequestLanguage(language, config[1]),
     prompt |-> config[1].prompt,
     temperature |-> config[1].temperature]

\* CreateTranscriptionRequestArgs ... build()
BuildRequest(cfg, wav_bytes, language) ==
    [model |-> cfg.model,
     file |-> [data |-> wav_bytes, file_name |-> "audio.wav"],
     response_format |-> "json",
     language |-> RequestLanguage(language, cfg),
     prompt |-> cfg.prompt,
     temperature |-> cfg.temperature]

\* self.client.audio().create_transcription(request): the call is authorised by
\* the key the Client was built with
CreateTranscription(request) ==
    [endpoint |-> "audio/transcriptions", api_key |-> client[1].api_key,
     body |-> Some(request)]

\* mutant of TranscribeSend: the empty credential is not checked
TranscribeSendWithoutKeyCheck(t) ==
    /\ pc[t] = "check"
    /\ op[t] = "transcribe"
    /\ LET wav == audio_samples_to_wav_bytes(arg[t][1].audio_samples)
           request == [model |-> snap[t][1].model,
                       file |-> [data |-> wav[2], file_name |-> "audio.wav"],
                       response_format |-> "json",
                       language |-> IF arg[t][1].language # None
                                    THEN arg[t][1].language ELSE snap[t][1].language,
                       prompt |-> snap[t][1].prompt,
                       temperature |-> snap[t][1].temperature]
       IN  /\ encoded' = [encoded EXCEPT ![t] = TRUE]
           /\ sent' = [sent EXCEPT ![t] =
                          Some([endpoint |-> "audio/transcriptions",
                                api_key |-> client[1].api_key, body |-> Some(request)])]
           /\ calls' = [calls EXCEPT ![t] = calls[t] + 1]
           /\ pc' = [pc EXCEPT ![t] = "await"]
           /\ UNCHANGED result
    /\ UNCHANGED <<client, config, lock, newResult, op, arg, snap, lastUpdate,
                   updSeq, startSeq, snapAt>>

\* the key check, the encoding, the request, and the start of the provider call
TranscribeSend(t) ==
    /\ pc[t] = "check"
    /\ op[t] = "transcribe"
    /\ IF snap[t][1].api_key = ""
       THEN /\ result' = [result EXCEPT ![t] = Err("OpenAI API key is not configured")]
            /\ pc' = [pc EXCEPT ![t] = "done"]
            /\ UNCHANGED <<sent, calls, encoded>>
       ELSE LET wav == audio_samples_to_wav_bytes(arg[t][1].audio_samples)
                request == BuildRequest(snap[t][1], wav[2], arg[t][1].language)
            IN  /\ encoded' = [encoded EXCEPT ![t] = TRUE]
                /\ sent' = [sent EXCEPT ![t] = Some(CreateTranscription(request))]
                /\ calls' = [calls EXCEPT ![t] = calls[t] + 1]
                /\ pc' = [pc EXCEPT ![t] = "await"]
                /\ UNCHANGED result
    /\ UNCHANGED <<client, config, lock, newResult, op, arg, snap, lastUpdate,
                   updSeq, startSeq, snapAt>>

\* mutant of TranscribeRespond: a failed call is sent once more
TranscribeRespondRetrying(t, ok) ==
    /\ pc[t] = "await"
    /\ op[t] = "transcribe"
    /\ IF ok \/ calls[t] >= 2
       THEN /\ result' = [result EXCEPT ![t] = IF ok THEN Ok(ProviderText)
                                               ELSE Err("OpenAI API error")]
            /\ pc' = [pc EXCEPT ![t] = "done"]
            /\ UNCHANGED calls
       ELSE /\ calls' = [calls EXCEPT ![t] = calls[t] + 1]
            /\ UNCHANGED <<result, pc>>
    /\ UNCHANGED <<client, config, lock, newResult, op, arg, snap, sent,
                   encoded, lastUpdate, updSeq, startSeq, snapAt>>

\* the provider answers: the text, or an error mapped to "OpenAI API error"
TranscribeRespond(t, ok) ==
    /\ pc[t] = "await"
    /\ op[t] = "transcribe"
    /\ result' = [result EXCEPT ![t] = IF ok THEN Ok(ProviderText)
                                       ELSE Err("OpenAI API error")]
    /\ pc' = [pc EXCEPT ![t] = "done"]
    /\ UNCHANGED <<client, config, lock, newResult, op, arg, snap, sent, calls,
                   encoded, lastUpdate, updSeq, startSeq, snapAt>>

\* ---- validate_api_key()
ValidateStart(t) ==
    /\ client # None
    /\ pc[t] = "idle"
    /\ pc' = [pc EXCEPT ![t] = "lock"]
    /\ op' = [op EXCEPT ![t] = "validate"]
    /\ startSeq' = [startSeq EXCEPT ![t] = updSeq]
    /\ UNCHANGED <<client, config, lock, newResult, arg, snap, sent, calls,
                   encoded, result, lastUpdate, updSeq, snapAt>>

\* self.client.models().list()
ListModels ==
    [endpoint |-> "models", api_key |-> client[1].api_key, body |-> None]

ValidateSend(t) ==
    /\ pc[t] = "check"
    /\ op[t] = "validate"
    /\ IF snap[t][1].api_key = ""
       THEN /\ result' = [result EXCEPT ![t] = Err("OpenAI API key is empty")]
            /\ pc' = [pc EXCEPT ![t] = "done"]
            /\ UNCHANGED <<sent, calls>>
       ELSE /\ sent' = [sent EXCEPT ![t] = Some(ListModels)]
            /\ calls' = [calls EXCEPT ![t] = calls[t] + 1]
            /\ pc' = [pc EXCEPT ![t] = "await"]
            /\ UNCHANGED result
    /\ UNCHANGED <<client, config, lock, newResult, op, arg, snap, encoded,
                   lastUpdate, updSeq, startSeq, snapAt>>

ValidateRespond(t, ok) ==
    /\ pc[t] = "await"
    /\ op[t] = "validate"
    /\ result' = [result EXCEPT ![t] = IF ok THEN Ok("unit") ELSE Err("Invalid API key")]
    /\ pc' = [pc EXCEPT ![t] = "done"]
    /\ UNCHANGED <<client, config, lock, newResult, op, arg, snap, sent, calls,
                   encoded, lastUpdate, updSeq, startSeq, snapAt>>

\* the call returns its Result to the caller; its locals are dropped
Return(t) ==
    /\ pc[t] = "done"
    /\ Reset(t)
    /\ UNCHANGED <<client, config, lock, newResult, lastUpdate, updSeq>>

ClientInit ==
    /\ client = None
    /\ config = None
    /\ lock = Free
    /\ newResult = [k \in ApiKeys |-> None]
    /\ pc = [t \in Tasks |-> "idle"]
    /\ op = [t \in Tasks |-> "none"]
    /\ arg = [t \in Tasks |-> None]
    /\ snap = [t \in Tasks |-> None]
    /\ sent = [t \in Tasks |-> None]
    /\ calls = [t \in Tasks |-> 0]
    /\ encoded = [t \in Tasks |-> FALSE]
    /\ result = [t \in Tasks |-> None]
    /\ lastUpdate = None
    /\ updSeq = 0
    /\ startSeq = [t \in Tasks |-> 0]
    /\ snapAt = [t \in Tasks |-> None]

EncIdle ==
    /\ encSamples = <<>>
    /\ encOut = None

PersistIdle ==
    /\ saveMode = None
    /\ retention = 0
    /\ phase = "Idle"
    /\ cur = None
    /\ history = <<>>

Init == ClientInit /\ EncIdle /\ PersistIdle

Next ==
    \/ \E k \in ApiKeys : New(k) /\ UNCHANGED <<encVars, persistVars>>
    \/ \E t \in Tasks, c \in ConfigInputs : UpdateStart(t, c) /\ UNCHANGED <<encVars, persistVars>>
    \/ \E t \in Tasks : UpdateLock(t) /\ UNCHANGED <<encVars, persistVars>>
    \/ \E t \in Tasks : UpdateWrite1(t) /\ UNCHANGED <<encVars, persistVars>>
    \/ \E t \in Tasks : UpdateWrite2(t) /\ UNCHANGED <<encVars, persistVars>>
    \/ \E t \in Tasks : SnapLock(t) /\ UNCHANGED <<encVars, persistVars>>
    \/ \E t \in Tasks : SnapClone1(t) /\ UNCHANGED <<encVars, persistVars>>
    \/ \E t \in Tasks : SnapClone2(t) /\ UNCHANGED <<encVars, persistVars>>
    \/ \E t \in Tasks, a \in AudioInputs, l \in LanguageInputs, tr \in BOOLEAN :
          TranscribeStart(t, a, l, tr) /\ UNCHANGED <<encVars, persistVars>>
    \/ \E t \in Tasks : TranscribeSend(t) /\ UNCHANGED <<encVars, persistVars>>
    \/ \E t \in Tasks, ok \in BOOLEAN : TranscribeRespond(t, ok) /\ UNCHANGED <<encVars, persistVars>>
    \/ \E t \in Tasks : ValidateStart(t) /\ UNCHANGED <<encVars, persistVars>>
    \/ \E t \in Tasks : ValidateSend(t) /\ UNCHANGED <<encVars, persistVars>>
    \/ \E t \in Tasks, ok \in BOOLEAN : ValidateRespond(t, ok) /\ UNCHANGED <<encVars, persistVars>>
    \/ \E t \in Tasks : Return(t) /\ UNCHANGED <<encVars, persistVars>>

Spec == Init /\ [][Next]_vars
\* ---------------------------------------------------------------- properties of the client
HasSnapshot(t) == op[t] \in {"transcribe", "validate"} /\ pc[t] \in {"check", "await", "done"}
Transcribing(t) == op[t] = "transcribe"
ConfigError == Err("OpenAI API key is not configured")

\* C1: a transcribe call started after update_config(c) completed, with no further
\* update completed since, sends a request that takes every configuration field from
\* c: the credential, the model, the language (unless overridden per call), the
\* temperature and the prompt.
C1_UpdateObservedByTranscribe ==
    \A t \in Tasks :
        (Transcribing(t) /\ sent[t] # None /\ updSeq > 0 /\ startSeq[t] = updSeq) =>
            LET c == lastUpdate[1]
                r == sent[t][1].body[1]
            IN  /\ sent[t][1].api_key = c.api_key
                /\ r.model = c.model
                /\ (arg[t][1].language = None => r.language = c.language)
                /\ r.temperature = c.temperature
                /\ r.prompt = c.prompt

\* C2: every completed snapshot equals, in all five fields, the configuration that
\* the constructor or the last completed update_config had installed when the
\* snapshot took the lock: it is the initial configuration or the argument of one
\* completed update, never a mix of two configurations.
C2_SnapshotIsOneConfiguration ==
    \A t \in Tasks :
        HasSnapshot(t) =>
            /\ snapAt[t] # None
            /\ snap[t] = snapAt[t]
            /\ \/ \E k \in ApiKeys \ {""} :
                     snap[t][1] = OpenAIConfiguration(k, "whisper-1", None, 0, None)
               \/ snap[t][1] \in ConfigInputs

\* C2 witness: a task holds a snapshot equal to the argument of the last completed
\* update while another task is in the middle of storing a different configuration.
C2_Witness ==
    \E t, u \in Tasks :
        /\ HasSnapshot(t) /\ pc[t] = "check"
        /\ updSeq >= 1 /\ snap[t] = lastUpdate
        /\ pc[u] = "u_write2" /\ arg[u] # lastUpdate

\* C3: the request of a transcribe call carries the model, language, prompt and
\* temperature of the configuration that was installed when the call took its
\* snapshot, whatever update_config calls complete while the call is in flight.
C3_InFlightUsesOwnSnapshot ==
    \A t \in Tasks :
        (Transcribing(t) /\ sent[t] # None) =>
            LET c == snapAt[t][1]
                r == sent[t][1].body[1]
            IN  /\ r.model = c.model
                /\ (arg[t][1].language = None => r.language = c.language)
                /\ r.prompt = c.prompt
                /\ r.temperature = c.temperature

\* C3 witness: two transcribe calls await the provider; an update completed after
\* the first took its snapshot, so the two requests differ and the first no longer
\* matches the shared configuration.
C3_Witness ==
    \E t, u \in Tasks :
        /\ Transcribing(t) /\ pc[t] = "await"
        /\ Transcribing(u) /\ pc[u] = "await"
        /\ sent[t][1].body[1].model # sent[u][1].body[1].model
        /\ sent[t][1].body[1].prompt # sent[u][1].body[1].prompt
        /\ config[1].model # sent[t][1].body[1].model
        /\ config = snap[u]

C5_NewChecksKey ==
    \A k \in ApiKeys :
        newResult[k] # None =>
            IF k = ""
            THEN newResult[k] = Err("OpenAI API key is required")
            ELSE /\ newResult[k] = Ok("client")
                 /\ client = Some([api_key |-> k])
                 /\ (updSeq = 0 /\ lock = Free) =>
                        config = Some([api_key |-> k, model |-> "whisper-1",
                                       language |-> None, temperature |-> 0,
                                       prompt |-> None])

\* whenever no non-empty credential was accepted, there is no client and no
\* configuration
C5_NoClientFromEmptyKey ==
    (\A k \in ApiKeys \ {""} : newResult[k] = None) => (client = None /\ config = None)

\* C5: new("") fails with "OpenAI API key is required" and yields no client;
\* new(k) for a non-empty k succeeds and yields a client whose configuration is
\* k with model "whisper-1", no language, temperature 0.0 and no prompt.
C5_NewContract == C5_NewChecksKey /\ C5_NoClientFromEmptyKey

\* C5 witness: new("") has failed and a later new("k1") has built the client.
C5_Witness ==
    /\ newResult[""] = Err("OpenAI API key is required")
    /\ newResult["k1"] = Ok("client")
    /\ config = Some(OpenAIConfiguration("k1", "whisper-1", None, 0, None))

\* C6 as stated: every finished invocation of transcribe and validate_api_key has
\* performed exactly one network call.
C6_ExactlyOneCall ==
    \A t \in Tasks : pc[t] = "done" => calls[t] = 1

\* C6 amended: an invocation never performs more than one network call; it performs
\* exactly one when its snapshot has a non-empty credential, and none when the
\* snapshot's credential is empty.
C6_AtMostOneCall ==
    \A t \in Tasks :
        /\ calls[t] <= 1
        /\ pc[t] = "await" => calls[t] = 1
        /\ pc[t] = "done" => calls[t] = (IF snap[t][1].api_key = "" THEN 0 ELSE 1)

\* C6 witness: a provider failure has been returned as an error after one call.
C6_Witness ==
    \E t \in Tasks :
        /\ Transcribing(t) /\ pc[t] = "done"
        /\ result[t] = Err("OpenAI API error")
        /\ calls[t] = 1

\* the outcome of the key check, by the credential of the snapshot
C7_EmptyKeyState ==
    \A t \in Tasks :
        (Transcribing(t) /\ pc[t] \in {"await", "done"}) =>
            IF snap[t][1].api_key = ""
            THEN /\ pc[t] = "done"
                 /\ result[t] = ConfigError
                 /\ ~encoded[t]
                 /\ sent[t] = None
                 /\ calls[t] = 0
            ELSE /\ result[t] # ConfigError
                 /\ encoded[t]
                 /\ sent[t] # None

\* the failing step leaves the shared configuration as it was
C7_EmptyKeyStep ==
    \A t \in Tasks :
        (Transcribing(t) /\ pc[t] = "check" /\ pc'[t] = "done") =>
            (config' = config /\ lock' = lock)

\* C7: a transcribe call whose snapshot has an empty credential (update_config
\* accepts one) fails with the configuration error without encoding the audio and
\* without a request, and its failing step leaves the shared configuration
\* unchanged; a call whose snapshot has a non-empty credential does not fail with
\* that error.
C7_EmptyKeyFailsEarly == []C7_EmptyKeyState /\ [][C7_EmptyKeyStep]_vars

\* C7 witness: update_config installed a configuration with an empty credential and
\* a transcribe call has failed on it.
C7_Witness ==
    \E t \in Tasks :
        /\ Transcribing(t) /\ pc[t] = "done"
        /\ updSeq >= 1
        /\ snap[t][1].api_key = ""
        /\ result[t] = ConfigError
        /\ config = snap[t]

\* C8: the request's language is the per-call override if present, else the
\* snapshot's language if present, else absent; its prompt is the snapshot's prompt
\* (absent when the snapshot has none); its temperature is the snapshot's.
C8_RequestFields ==
    \A t \in Tasks :
        (Transcribing(t) /\ sent[t] # None) =>
            LET o == arg[t][1].language
                c == snap[t][1]
                r == sent[t][1].body[1]
            IN  /\ o # None => r.language = o
                /\ (o = None /\ c.language # None) => r.language = c.language
                /\ (o = None /\ c.language = None) => r.language = None
                /\ r.prompt = c.prompt
                /\ r.temperature = c.temperature

\* C8 witness: override and snapshot language are both present and differ, and the
\* snapshot has a prompt.
C8_Witness ==
    \E t \in Tasks :
        /\ Transcribing(t) /\ sent[t] # None
        /\ arg[t][1].language = Some("de")
        /\ snap[t][1].language = Some("en")
        /\ snap[t][1].prompt = Some("p1")
        /\ sent[t][1].body[1].language = Some("de")
\* ---------------------------------------------------------------- encoder harness
EncInit ==
    /\ ClientInit /\ PersistIdle
    /\ encSamples \in SeqsUpTo(SampleValues, MaxLen)
    /\ encOut = None

Encode ==
    /\ encOut = None
    /\ encOut' = audio_samples_to_wav_bytes(encSamples)
    /\ UNCHANGED <<encSamples, clientVars, persistVars>>

EncNext == Encode

SpecEncode == EncInit /\ [][EncNext]_vars

\* little-endian readers of the output
U32At(b, i) == b[i] + 256 * b[i + 1] + 65536 * b[i + 2] + 16777216 * b[i + 3]
S16At(b, i) ==
    LET u == b[i] + 256 * b[i + 1]
    IN  IF u >= 32768 THEN u - 65536 ELSE u

\* C9: for every sample sequence of length n (n = 0 included) the encoder succeeds
\* with 44 + 2n bytes: "RIFF", outer size = length - 8, "WAVE", "fmt ", data size
\* 2n at offset 40, then the n converted samples in input order.
C9_WavLayout ==
    encOut # None =>
        /\ encOut[1] = "Ok"
        /\ LET b == encOut[2]
               n == Len(encSamples)
           IN  /\ Len(b) = 44 + 2 * n
               /\ SubSeq(b, 1, 4) = <<82, 73, 70, 70>>
               /\ U32At(b, 5) = Len(b) - 8
               /\ SubSeq(b, 9, 12) = <<87, 65, 86, 69>>
               /\ SubSeq(b, 13, 16) = <<102, 109, 116, 32>>
               /\ U32At(b, 41) = 2 * n
               /\ \A i \in 1..n : S16At(b, 43 + 2 * i) = ToI16(Clamp(encSamples[i]))
               /\ \A i \in 1..Len(b) : b[i] \in 0..255
               /\ n = 0 => (Len(b) = 44 /\ SubSeq(b, 41, 44) = <<0, 0, 0, 0>>)

\* C9 witness: a sequence with an out-of-range sample and a negative one has been
\* encoded, each to its own position.
C9_Witness ==
    /\ encSamples = <<F32(0 - 2000), F32(250), F32(0 - 500)>>
    /\ encOut # None
    /\ Len(encOut[2]) = 50
    /\ S16At(encOut[2], 45) = 0 - 32767
    /\ S16At(encOut[2], 47) = 8191
    /\ S16At(encOut[2], 49) = 0 - 16383
\* ---------------------------------------------------------------- recording persistence
\* The persistence manager (managers/history) is modelled from the design document
\* (sections 3, 4.4 and 7), the save modes and their default from the storage tests.
\* Only recordings whose transcription succeeded are modelled.
RecordingSaveModes == {"AudioOnly", "TextOnly", "Both"}

\* RecordingSaveMode::default()
RecordingSaveMode_default == "Both"

\* settings.recording_save_mode: the stored mode, else the default
EffectiveSaveMode == IF saveMode = None THEN RecordingSaveMode_default ELSE saveMode[1]

\* retention caps: 0 is unlimited, n > 0 keeps the artifacts of the newest n recordings
RetentionCaps == 0..(MaxRecordings - 1)

PersistInit ==
    /\ ClientInit /\ EncIdle
    /\ saveMode = None
    /\ retention \in RetentionCaps
    /\ phase = "Idle"
    /\ cur = None
    /\ history = <<>>

\* the user stores a save mode in the settings
SetSaveMode(m) ==
    /\ saveMode' = Some(m)
    /\ UNCHANGED <<retention, phase, cur, history>>

\* Captured: a finished recording with its text arrives; transient tells whether the
\* transcription step already wrote its audio file
Capture(transient) ==
    /\ phase \in {"Idle", "Finalized", "Failed"}
    /\ Len(history) < MaxRecordings
    /\ cur' = Some([mode |-> EffectiveSaveMode, defaulted |-> (saveMode = None),
                    transient |-> transient, audio |-> transient, text |-> FALSE,
                    cleanupFailed |-> FALSE])
    /\ phase' = "Captured"
    /\ UNCHANGED <<saveMode, retention, history>>

\* mutant of Route: under TextOnly the transient audio file is left where it is
RouteWithoutCleanup(audioOk, textOk, deleteOk) ==
    /\ phase = "Captured"
    /\ LET r == cur[1]
           wantAudio == r.mode \in {"AudioOnly", "Both"}
           wantText == r.mode \in {"TextOnly", "Both"}
           audio1 == IF wantAudio /\ audioOk THEN TRUE ELSE r.audio
           text1 == wantText /\ textOk
           failed == (wantAudio /\ ~audioOk) \/ (wantText /\ ~textOk)
       IN  /\ cur' = Some([r EXCEPT !.audio = audio1, !.text = text1])
           /\ phase' = IF failed THEN "Failed" ELSE "Routed"
    /\ UNCHANGED <<saveMode, retention, history>>

\* Routed: the artifacts of the recording's mode are written; a failed write of a
\* required artifact fails the recording; under TextOnly an audio file that already
\* exists is deleted, and a failed deletion is logged only
Route(audioOk, textOk, deleteOk) ==
    /\ phase = "Captured"
    /\ LET r == cur[1]
           wantAudio == r.mode \in {"AudioOnly", "Both"}
           wantText == r.mode \in {"TextOnly", "Both"}
           audio1 == IF wantAudio /\ audioOk THEN TRUE ELSE r.audio
           text1 == wantText /\ textOk
           failed == (wantAudio /\ ~audioOk) \/ (wantText /\ ~textOk)
           cleanup == r.mode = "TextOnly" /\ text1 /\ audio1
           audio2 == IF cleanup /\ deleteOk THEN FALSE ELSE audio1
       IN  /\ cur' = Some([r EXCEPT !.audio = audio2, !.text = text1,
                                    !.cleanupFailed = cleanup /\ ~deleteOk])
           /\ phase' = IF failed THEN "Failed" ELSE "Routed"
    /\ UNCHANGED <<saveMode, retention, history>>

\* the artifacts of an older recording once it is surplus: its audio file is removed
\* if it has one, and its text record only if it had a paired audio file
Prune(r) ==
    [r EXCEPT !.audio = FALSE, !.text = IF r.audio THEN FALSE ELSE r.text]

\* Reconciled: with a cap of n, the oldest recordings beyond the newest n (the
\* current one included) lose their artifacts
Reconcile ==
    /\ phase = "Routed"
    /\ LET surplus == IF retention = 0 THEN 0 ELSE (Len(history) + 1) - retention
       IN  history' = [i \in 1..Len(history) |->
                          IF i <= surplus THEN Prune(history[i]) ELSE history[i]]
    /\ phase' = "Reconciled"
    /\ UNCHANGED <<saveMode, retention, cur>>

\* Finalized: terminal for this recording
FinalizeRecording ==
    /\ phase = "Reconciled"
    /\ phase' = "Finalized"
    /\ history' = Append(history, cur[1])
    /\ UNCHANGED <<saveMode, retention, cur>>

PersistNext ==
    \/ \E m \in RecordingSaveModes : SetSaveMode(m) /\ UNCHANGED <<clientVars, encVars>>
    \/ \E tr \in BOOLEAN : Capture(tr) /\ UNCHANGED <<clientVars, encVars>>
    \/ \E a, x, d \in BOOLEAN : Route(a, x, d) /\ UNCHANGED <<clientVars, encVars>>
    \/ Reconcile /\ UNCHANGED <<clientVars, encVars>>
    \/ FinalizeRecording /\ UNCHANGED <<clientVars, encVars>>

SpecPersist == PersistInit /\ [][PersistNext]_vars

\* C10 as stated: once a recording is Finalized, AudioOnly has left an audio file
\* and no text record, TextOnly a text record and no audio file, Both has left
\* both; a recording made before any save mode was stored is handled as Both.
C10_ArtifactsBySaveMode ==
    phase = "Finalized" =>
        LET r == cur[1]
        IN  /\ r.mode = "AudioOnly" => (r.audio /\ ~r.text)
            /\ r.mode = "TextOnly" => (r.text /\ ~r.audio)
            /\ r.mode = "Both" => (r.audio /\ r.text)
            /\ r.defaulted => r.mode = "Both"

\* C10 amended: as stated, except that under TextOnly the audio file is absent
\* unless the deletion of a transiently written audio file failed, in which case the
\* text record is kept and the audio file stays on disk.
C10_ArtifactsUnlessCleanupFails ==
    phase = "Finalized" =>
        LET r == cur[1]
        IN  /\ r.mode = "AudioOnly" => (r.audio /\ ~r.text)
            /\ r.mode = "TextOnly" => (r.text /\ (r.audio <=> r.cleanupFailed))
            /\ r.mode = "Both" => (r.audio /\ r.text)
            /\ r.defaulted => r.mode = "Both"
            /\ r.cleanupFailed => (r.mode = "TextOnly" /\ r.transient)

\* C10 witness: a TextOnly recording whose audio file had been written transiently
\* is Finalized with its text record and without the audio file, while an older
\* recording exists.
C10_Witness ==
    /\ phase = "Finalized"
    /\ cur[1].mode = "TextOnly" /\ cur[1].transient
    /\ cur[1].text /\ ~cur[1].audio
    /\ Len(history) >= 2
====
